---- MODULE Spec2Model ----
(***************************************************************************)
(* A model of the pinefile task runner: the task resolver (resolveTask),   *)
(* the hook name deriver (getFnName) and the execution engine (execute,    *)
(* runTask) with its completion bridge (the plain task wrapper, doneify    *)
(* and the completion callback).                                           *)
(*                                                                         *)
(* JavaScript strings are sequences of one-character strings, so that      *)
(* split and join are computed.  JavaScript values are records with a      *)
(* type tag `t`.  The engine's asynchronous functions are frames with a    *)
(* program counter; `stack` is the JavaScript call stack and `queue` the   *)
(* microtask queue (promise reactions, first in first out).                *)
(***************************************************************************)
EXTENDS Integers, Sequences, FiniteSets, TLC

VARIABLES pinefile, config, execs, stack, queue, log, calls, rt, res, behaviour,
          hook, pinefile0,
          _before, _after, _module, tasks, callStack, jobs, output, registered,
          env, env0

\* the state of the engine and of its caller
engineVars == <<pinefile, config, execs, stack, queue, log, calls, rt, res, behaviour>>

\* the state of the companion module with before and after
companionVars == <<_before, _after, _module, tasks, callStack, jobs, output, registered>>

\* the environment of the process, and what it was when the process started
envVars == <<env, env0>>

\* the state the engine does not touch: a call of getFnName on its own, the
\* namespace as the caller built it, the companion module and the environment
otherVars == <<hook, pinefile0, companionVars, envVars>>

vars == <<engineVars, otherVars>>

(***************************************************************************)
(* Bounds of the model.                                                    *)
(***************************************************************************)
\* the number of direct resolveTask calls a caller makes before runTask
MaxResolveCalls == 1

(***************************************************************************)
(* Strings.                                                                *)
(***************************************************************************)
SepChar == ":"

RECURSIVE SplitFrom(_, _, _)
\* the segments of s, cur being the segment read so far
SplitFrom(s, sep, cur) ==
    IF s = <<>> THEN <<cur>>
    ELSE IF Head(s) = sep THEN <<cur>> \o SplitFrom(Tail(s), sep, <<>>)
    ELSE SplitFrom(Tail(s), sep, Append(cur, Head(s)))

\* String.prototype.split on a one-character separator
Split(s, sep) == SplitFrom(s, sep, <<>>)

RECURSIVE Join(_, _)
\* Array.prototype.join
Join(names, sep) ==
    IF names = <<>> THEN <<>>
    ELSE IF Len(names) = 1 THEN names[1]
    ELSE names[1] \o <<sep>> \o Join(Tail(names), sep)

Front(s) == SubSeq(s, 1, Len(s) - 1)

Last(s) == s[Len(s)]

kUnderscore == <<"_">>
kDefault == <<"d", "e", "f", "a", "u", "l", "t">>
kTaskExists == <<"t", "a", "s", "k", "E", "x", "i", "s", "t", "s">>
sPre == <<"p", "r", "e">>
sPost == <<"p", "o", "s", "t">>

(***************************************************************************)
(* JavaScript values.                                                      *)
(***************************************************************************)
NoMap == <<>>

Undef == [t |-> "undefined", id |-> "", len |-> 0, num |-> 0, m |-> NoMap]
Null == [t |-> "null", id |-> "", len |-> 0, num |-> 0, m |-> NoMap]
False == [t |-> "boolean", id |-> "false", len |-> 0, num |-> 0, m |-> NoMap]
True == [t |-> "boolean", id |-> "true", len |-> 0, num |-> 1, m |-> NoMap]
Num(n) == [t |-> "number", id |-> "", len |-> 0, num |-> n, m |-> NoMap]
\* a string value; s is its text
Str(s) == [t |-> "string", id |-> "", len |-> Len(s), num |-> 0, m |-> NoMap, s |-> s]
\* a function; len is its declared parameter count (Function.length)
Fn(id, len) == [t |-> "function", id |-> id, len |-> len, num |-> 0, m |-> NoMap]
\* a plain object; m maps its own keys to their values
Obj(m) == [t |-> "object", id |-> "", len |-> 0, num |-> 0, m |-> m]
\* an array of strings (a pre-split task path)
Arr(a) == [t |-> "array", id |-> "", len |-> Len(a), num |-> 0, m |-> NoMap, a |-> a]
\* a promise made by user code; v is what it resolves to, rejects when ok is FALSE
Promise(v, ok) ==
    [t |-> "promise", id |-> "", len |-> 0, num |-> 0, m |-> NoMap, v |-> v, ok |-> ok]

\* typeof val
TypeOf(val) ==
    CASE val.t \in {"null", "array", "promise"} -> "object"
      [] OTHER -> val.t

\* the truthiness of a value
Truthy(val) ==
    CASE val.t \in {"undefined", "null"} -> FALSE
      [] val.t = "boolean" -> val = True
      [] val.t = "number" -> val.num # 0
      [] val.t = "string" -> val.len # 0
      [] OTHER -> TRUE

\* val[key] for a value that is neither null nor undefined
Get(val, key) ==
    IF val.t = "object" /\ key \in DOMAIN val.m THEN val.m[key] ELSE Undef

\* Object.keys(val)
Keys(val) == DOMAIN val.m

\* isObject of @pinefile/utils: a non-null object that is not an array
isObject(val) == val.t = "object"

(***************************************************************************)
(* Task resolver.                                                          *)
(***************************************************************************)
\* determine if the input value is a valid task value
validTaskValue(val) ==
    \/ TypeOf(val) = "function"
    \/ /\ isObject(val)
       /\ Keys(val) # {}
       /\ TypeOf(Get(val, kUnderscore)) \in {"undefined", "function"}

\* the segments of a task path: the array itself, or the string split on sep
Properties(key, sep) == IF key.t = "array" THEN key.a ELSE Split(key.s, sep)

RECURSIVE Walk(_, _)
\* properties.reduce((prev, cur) => prev[cur] || false, obj)
Walk(prev, properties) ==
    IF properties = <<>> THEN prev
    ELSE LET val == Get(prev, Head(properties))
         IN Walk(IF Truthy(val) THEN val ELSE False, Tail(properties))

\* task.default = task.default._ when task.default is an object
FlattenDefault(task) ==
    IF isObject(Get(task, kDefault))
    THEN Obj([task.m EXCEPT ![kDefault] = Get(task.m[kDefault], kUnderscore)])
    ELSE task

\* whether resolveTask reaches the assignment to task.default
ReachesFlatten(obj, key) ==
    /\ Truthy(key)
    /\ LET task == Walk(obj, Properties(key, SepChar))
       IN /\ isObject(task)
          /\ ~Truthy(Get(task, kUnderscore))
          /\ isObject(Get(task, kDefault))

\* the value resolveTask(obj, key) returns
resolveTask(obj, key) ==
    IF ~Truthy(key) THEN False
    ELSE LET task == Walk(obj, Properties(key, SepChar))
         IN IF ~isObject(task) /\ ~validTaskValue(task) THEN False
            ELSE IF isObject(task) /\ Truthy(Get(task, kUnderscore))
                 THEN Get(task, kUnderscore)
                 ELSE FlattenDefault(task)

RECURSIVE SetAt(_, _, _)
\* obj with the value at the path properties replaced by val
SetAt(obj, properties, val) ==
    IF properties = <<>> THEN val
    ELSE Obj([obj.m EXCEPT ![Head(properties)] =
                 SetAt(obj.m[Head(properties)], Tail(properties), val)])

\* the namespace after resolveTask(obj, key): the task object found is the
\* namespace's own object, so the assignment to task.default changes obj
resolveTaskNs(obj, key) ==
    IF ReachesFlatten(obj, key)
    THEN SetAt(obj, Properties(key, SepChar),
               FlattenDefault(Walk(obj, Properties(key, SepChar))))
    ELSE obj

(***************************************************************************)
(* Hook name deriver.                                                      *)
(***************************************************************************)
\* a name with the prefix put before its first segment
getFnNamePrefixFirst(name, prefix, sep) == prefix \o name

\* get task function name with prefix
getFnName(name, prefix, sep) ==
    LET names == Split(name, sep)
        lastName == Last(names)
    IN Join(Front(names) \o <<prefix \o lastName>>, sep)

(***************************************************************************)
(* Inputs: namespaces, task names, runner configurations.                  *)
(***************************************************************************)
kA == <<"a">>
kB == <<"b">>
kN == <<"n">>
kPreB == sPre \o kB
kPostB == sPost \o kB
kNB == kN \o <<SepChar>> \o kB

\* user functions of the namespaces: plain tasks declare at most one parameter
fn1 == Fn("fn1", 1)
fn2 == Fn("fn2", 1)
fn3 == Fn("fn3", 0)
fn4 == Fn("fn4", 1)
plugin3 == Fn("plugin3", 3)
plugin4 == Fn("plugin4", 4)

EmptyObj == Obj(NoMap)

Pinefiles ==
    { Obj(kB :> fn1 @@ kPreB :> fn2 @@ kPostB :> fn3),
      Obj(kB :> fn1 @@ kPostB :> fn3 @@ (sPre \o kPostB) :> fn4),
      Obj(kB :> plugin3 @@ kPreB :> fn2 @@ kPostB :> plugin4),
      Obj(kN :> Obj(kUnderscore :> fn1 @@ kB :> fn2 @@ kPreB :> fn3)),
      Obj(kA :> Obj(kDefault :> fn1 @@ (sPre \o kDefault) :> fn2)),
      Obj(kA :> Obj(kDefault :> Obj(kUnderscore :> fn1 @@ kB :> fn2))),
      Obj(kA :> Obj(kDefault :> Obj(kB :> fn2)) @@ (sPre \o kA) :> fn3),
      Obj(kA :> Obj(kDefault :> Num(123) @@ kB :> fn2) @@ (sPost \o kA) :> fn3),
      Obj(kA :> Obj(kB :> fn1) @@ (sPre \o kA) :> fn2 @@ (sPost \o kA) :> fn3),
      Obj(kA :> EmptyObj @@ kB :> Obj(kUnderscore :> Num(123)) @@ kN :> Num(123)),
      Obj(kA :> Num(0) @@ kB :> fn1 @@ kPreB :> EmptyObj @@ kN :> Null),
      Obj(kDefault :> Obj(kDefault :> fn1) @@ (sPre \o kDefault) :> fn2
          @@ kA :> Obj(kDefault :> fn3 @@ (sPre \o kDefault) :> fn4)
          @@ (sPre \o kA) :> fn2) }

\* the task names runTask is called with
TaskNames == { kB, kA, kN, kNB, kA \o <<SepChar>> \o kB, kDefault, <<>> }

\* the paths resolveTask is called with
ResolveKeys ==
    { Str(n) : n \in TaskNames } \cup
    { Undef, Arr(<<>>), Arr(<<kN, kB>>), Str(kA \o <<SepChar>> \o kDefault),
      Str(kB \o <<SepChar>>) }

\* the argument bag of a run
ArgsBag == Obj(<<"x">> :> Num(1))

customRunner3 == Fn("customRunner3", 3)
customRunner4 == Fn("customRunner4", 4)
customRunner1 == Fn("customRunner1", 1)
taskExistsFn == Fn("taskExists", 4)

RunnerOptions == Obj(<<"o">> :> True)

\* the values of the `runner` field a caller configures
Runners ==
    { customRunner3, customRunner4, customRunner1,
      Obj(kDefault :> customRunner3),
      Obj(kDefault :> customRunner3 @@ kTaskExists :> taskExistsFn),
      Obj(kDefault :> Num(123)),
      Str(<<"r">>) }

\* the partial configurations configure is called with
NewConfigs ==
    { [runner |-> r] : r \in Runners } \cup
    { [runner |-> customRunner4, options |-> RunnerOptions] }

\* a runner that takes the completion callback, and one that does not
cbRunner == Fn("cbRunner", 1)
runner0 == Fn("runner0", 0)

\* the marker of a synchronous throw of user code
Thrown == [t |-> "thrown", id |-> "", len |-> 0, num |-> 0, m |-> NoMap]

\* what a 3- or 4-parameter function may produce when the engine invokes it
Produced ==
    { cbRunner, runner0, Null, Num(7), Promise(runner0, TRUE),
      Promise(cbRunner, TRUE), Promise(Null, TRUE), Promise(Undef, FALSE), Thrown }

\* how the body of a task or of a zero-parameter runner may end
BodyOutcomes == { "ok", "throw", "async_ok", "async_fail" }

\* what a runner that takes the completion callback may do with it
CbOutcomes == { "done_sync", "done_sync_err", "done_later", "throw" }

(***************************************************************************)
(* Configuration store.                                                    *)
(***************************************************************************)
\* the module's initial config; it has no runner
InitialConfig ==
    [dotenv |-> Arr(<<>>), env |-> EmptyObj, options |-> EmptyObj, path |-> Str(<<>>),
     runner |-> Undef]

\* config = { ...config, ...newConfig }
MergeConfig(cfg, newConfig) ==
    [f \in DOMAIN cfg |-> IF f \in DOMAIN newConfig THEN newConfig[f] ELSE cfg[f]]

NoErr == [k |-> "none", d |-> ""]
Err(k, d) == [k |-> k, d |-> d]

\* the error getRunner throws for this configuration, NoErr when it returns
getRunnerError(cfg) ==
    IF cfg.runner.t = "string" THEN Err("getRunner", "Failed to load runner")
    ELSE IF isObject(cfg.runner) /\ TypeOf(Get(cfg.runner, kDefault)) # "function"
    THEN Err("getRunner", "Expected runner function to be a function")
    ELSE NoErr

\* what getRunner returns when it does not throw
getRunner(cfg) == [runner |-> cfg.runner, options |-> cfg.options]

(***************************************************************************)
(* Configuration store: the environment.                                   *)
(***************************************************************************)
\* the names of environment variables and of the keys of config.env
vFoo == <<"f", "o", "o">>
vFOO == <<"F", "O", "O">>
vBAR == <<"B", "A", "R">>

\* the values of the variables: set before, set by configure, set by a file
vOld == <<"o", "l", "d">>
vNew == <<"n", "e", "w">>
vFile == <<"f", "i", "l", "e">>

\* the environments a process starts with
Envs == { [v \in S |-> vOld] : S \in SUBSET {vFoo, vFOO, vBAR} }

\* String.prototype.toUpperCase, on the letters of the names
UpperChar(c) ==
    CASE c = "f" -> "F" [] c = "o" -> "O" [] c = "b" -> "B"
      [] c = "a" -> "A" [] c = "r" -> "R" [] OTHER -> c

toUpperCase(s) == [i \in DOMAIN s |-> UpperChar(s[i])]

\* the entry of config.dotenv that loadDotenv has deleted
Hole == <<"(deleted)">>

\* the file of the dotenv list and the variables it defines
DotenvFile == <<".", "e", "n", "v">>

DotenvVars == vBAR :> vFile

\* dotenv.config({ path }): the variables of the file that are not set yet
DotenvLoad(environment, file) ==
    IF file = DotenvFile
    THEN [v \in DOMAIN environment \cup DOMAIN DotenvVars |->
             IF v \in DOMAIN environment THEN environment[v] ELSE DotenvVars[v]]
    ELSE environment

\* whether loadDotenv throws: Config path shouldn't be empty
loadDotenvThrows(cfg) ==
    /\ cfg.dotenv.t = "array"
    /\ ~Truthy(cfg.path)
    /\ cfg.dotenv.len # 0

RECURSIVE LoadFiles(_, _)
\* the environment after config.dotenv.forEach
LoadFiles(environment, files) ==
    IF files = <<>> THEN environment
    ELSE LoadFiles(IF Head(files) = Hole THEN environment
                   ELSE DotenvLoad(environment, Head(files)),
                   Tail(files))

\* the environment after loadDotenv(config)
loadDotenv(cfg, environment) ==
    IF cfg.dotenv.t # "array" THEN environment ELSE LoadFiles(environment, cfg.dotenv.a)

\* config after loadDotenv(config): every file of the list is deleted
loadDotenvConfig(cfg) ==
    IF cfg.dotenv.t # "array" THEN cfg
    ELSE [cfg EXCEPT !.dotenv = Arr([i \in DOMAIN cfg.dotenv.a |-> Hole])]

RECURSIVE SetKeys(_, _, _)
\* the environment after the for...in loop over the keys left to visit
SetKeys(environment, m, keys) ==
    IF keys = {} THEN environment
    ELSE LET key == CHOOSE k \in keys : TRUE
             assigned == IF key \in DOMAIN environment THEN environment
                         ELSE (toUpperCase(key) :> m[key].s) @@ environment
         IN SetKeys(assigned, m, keys \ {key})

\* the environment after setEnvironment(config)
setEnvironment(cfg, environment) ==
    IF ~isObject(cfg.env) THEN environment
    ELSE SetKeys(environment, cfg.env.m, Keys(cfg.env))

(***************************************************************************)
(* Execution engine: frames.                                               *)
(***************************************************************************)
Frame(k, id) == [k |-> k, id |-> id]

\* a call of execute(pinefile, name, args); `by` is the frame that awaits it
NewExec(name, args, by) ==
    [name |-> name, args |-> args, by |-> by, awaited |-> FALSE,
     pc |-> "start", st |-> "pending", err |-> NoErr,
     fn |-> Undef, fnName |-> name, fnExists |-> "unset", runner |-> Undef,
     beforeType |-> "",
     pre |-> 0, post |-> 0,
     wkind |-> "none", wpc |-> "none", wst |-> "none", wawaited |-> FALSE,
     dpc |-> "none", dst |-> "none", derr |-> NoErr,
     body |-> "none", bres |-> "none", cb |-> "none"]

\* a line of the log, written by execution e
LogEntry(lvl, msg, name, err, e) ==
    [lvl |-> lvl, msg |-> msg, name |-> name, err |-> err, e |-> e]

CallEntry(fn, sig, name, args, e) ==
    [fn |-> fn, sig |-> sig, name |-> name, args |-> args, e |-> e]

\* the frame that continues when the promise of an execution settles
WaiterFrame(by) ==
    CASE by.k = "pre" -> Frame("exec", by.id)
      [] by.k = "post" -> Frame("done", by.id)
      [] OTHER -> Frame("run", 0)

\* the promise of execution e settles
SettleExec(ex, e, status, err) ==
    [ex EXCEPT ![e].st = status, ![e].err = err, ![e].pc = "end"]

\* the microtask queue after the promise of execution x settled
Notify(q, x) == IF x.awaited THEN Append(q, WaiterFrame(x.by)) ELSE q

\* the frame on top of the call stack runs k-code of execution e at pc
OnTop(k) == stack # <<>> /\ Head(stack).k = k

TopId == Head(stack).id

\* what the user function id may do when called: a function does on every
\* call of a run what it did on its first call
Choices(id, all) == IF id \in DOMAIN behaviour THEN {behaviour[id]} ELSE all

Remember(id, choice) ==
    IF id \in DOMAIN behaviour THEN behaviour ELSE (id :> choice) @@ behaviour

(***************************************************************************)
(* Execution engine: runner selection.                                     *)
(***************************************************************************)
\* the results the taskExists predicate of the runner may give
TaskExistsResults(runner) ==
    IF /\ TypeOf(runner) # "function"
       /\ isObject(runner)
       /\ TypeOf(Get(runner, kDefault)) = "function"
       /\ TypeOf(Get(runner, kTaskExists)) = "function"
    THEN BOOLEAN ELSE {TRUE}

\* whether execute calls runner.taskExists
CallsTaskExists(runner) == TaskExistsResults(runner) = BOOLEAN

\* a selection that lets a callable task of the namespace win over the runner
SelectTaskFirst(task, runner, exists) ==
    IF TypeOf(task) = "function"
    THEN [fn |-> task, fnExists |-> TRUE]
    ELSE IF TypeOf(runner) = "function"
    THEN [fn |-> runner, fnExists |-> TRUE]
    ELSE [fn |-> task, fnExists |-> FALSE]

\* a selection that takes whatever resolved as found
SelectAnyResolved(task, runner, exists) ==
    IF TypeOf(runner) = "function"
    THEN [fn |-> runner, fnExists |-> TRUE]
    ELSE IF isObject(runner) /\ TypeOf(Get(runner, kDefault)) = "function"
    THEN [fn |-> Get(runner, kDefault),
          fnExists |-> IF TypeOf(Get(runner, kTaskExists)) = "function"
                       THEN exists ELSE TRUE]
    ELSE [fn |-> task, fnExists |-> Truthy(task)]

\* fn and fnExists after the runner selection
SelectRunner(task, runner, exists) ==
    IF TypeOf(runner) = "function"
    THEN [fn |-> runner, fnExists |-> TRUE]
    ELSE IF isObject(runner) /\ TypeOf(Get(runner, kDefault)) = "function"
    THEN [fn |-> Get(runner, kDefault),
          fnExists |-> IF TypeOf(Get(runner, kTaskExists)) = "function"
                       THEN exists ELSE TRUE]
    ELSE IF TypeOf(task) = "function"
    THEN [fn |-> task, fnExists |-> TRUE]
    ELSE [fn |-> task, fnExists |-> FALSE]

\* a substitution of the default that keeps the name of the task
SelectFnSameName(name, task, runner, exists) ==
    LET s == SelectRunner(task, runner, exists)
    IN IF isObject(s.fn) /\ Truthy(Get(s.fn, kDefault))
       THEN [fn |-> Get(s.fn, kDefault),
             fnName |-> name,
             fnExists |-> TypeOf(Get(s.fn, kDefault)) = "function"]
       ELSE [fn |-> s.fn, fnName |-> name, fnExists |-> s.fnExists]

\* use default function in objects: fn, fnName and fnExists
SelectFn(name, task, runner, exists) ==
    LET s == SelectRunner(task, runner, exists)
    IN IF isObject(s.fn) /\ Truthy(Get(s.fn, kDefault))
       THEN [fn |-> Get(s.fn, kDefault),
             fnName |-> IF name # kDefault
                        THEN name \o <<SepChar>> \o kDefault ELSE kDefault,
             fnExists |-> TypeOf(Get(s.fn, kDefault)) = "function"]
       ELSE [fn |-> s.fn, fnName |-> name, fnExists |-> s.fnExists]

\* the plain task wrapper: async (done) => { ... }
TaskWrapper == Fn("taskWrapper", 1)

\* the values the switch on fn.length may leave in runner
ProducedBy(fn) == IF fn.len \in {3, 4} THEN Choices(fn.id, Produced) ELSE {TaskWrapper}

\* the arguments the switch on fn.length passes to fn
CallSignature(fn, options) ==
    IF fn.len = 4 /\ isObject(options) /\ Keys(options) # {}
    THEN "pinefile,name,args,options"
    ELSE "pinefile,name,args"

\* the calls of user code execute makes before the pre-hook
SelectionCalls(x, e, runner, options, fn, found) ==
    (IF CallsTaskExists(runner)
     THEN <<CallEntry("taskExists", "pinefile,name,args,options", x.name, x.args, e)>>
     ELSE <<>>)
    \o (IF found /\ fn.len \in {3, 4}
        THEN <<CallEntry(fn.id, CallSignature(fn, options), x.name, x.args, e)>>
        ELSE <<>>)

\* a pre-hook name derived with the prefix of the post-hook
PreNameWithPostPrefix(fnName) == getFnName(fnName, sPost, SepChar)

\* a pre-hook under the name of the task itself
PreNameOfTask(fnName) == getFnName(fnName, <<>>, SepChar)

\* the name of the pre-hook and of the post-hook
PreName(fnName) == getFnName(fnName, sPre, SepChar)

PostName(fnName) == getFnName(fnName, sPost, SepChar)

\* an execute that swallows the error of getRunner
SwallowedRunnerError == "resolved"

\* what becomes of execute when getRunner throws: nothing catches it
OnGetRunnerError == "rejected"

\* a silent abort
NotFoundSilent(x, e) == <<>>

\* fail if no task function can be found
NotFoundLog(x, e) == <<LogEntry("error", "not found", x.name, NoErr, e)>>

(***************************************************************************)
(* Initial state and the caller's operations.                              *)
(***************************************************************************)
\* the companion module as it is loaded: nothing registered, nothing run
CompanionIdle ==
    /\ _before = <<>>
    /\ _after = <<>>
    /\ _module = {}
    /\ tasks = <<>>
    /\ callStack = <<>>
    /\ jobs = <<>>
    /\ output = <<>>
    /\ registered = <<>>

\* a process that starts with an empty environment
EnvIdle == env = <<>> /\ env0 = env

\* no call of getFnName on its own
NoHook == [called |-> FALSE, name |-> <<>>, prefix |-> <<>>, out |-> <<>>]

NoRes == [n |-> 0, called |-> FALSE, key |-> Undef, before |-> EmptyObj, val |-> False]

Init ==
    /\ pinefile \in Pinefiles
    /\ config = InitialConfig
    /\ execs = <<>>
    /\ stack = <<>>
    /\ queue = <<>>
    /\ log = <<>>
    /\ calls = <<>>
    /\ rt = "idle"
    /\ res = NoRes
    /\ behaviour = <<>>
    /\ hook = NoHook
    /\ pinefile0 = pinefile
    /\ CompanionIdle
    /\ EnvIdle

\* configure(newConfig), newConfig being given or returned by a function
\* (the caller configures once, before it runs a task)
Configure(newConfig) ==
    /\ UNCHANGED <<hook, pinefile0, companionVars, env0>>
    /\ rt = "idle"
    /\ config = InitialConfig
    /\ LET merged == MergeConfig(config, newConfig)
       IN IF loadDotenvThrows(merged)
          THEN config' = merged /\ env' = env
          ELSE /\ config' = loadDotenvConfig(merged)
               /\ env' = setEnvironment(merged, loadDotenv(merged, env))
    /\ UNCHANGED <<pinefile, execs, stack, queue, log, calls, rt, res, behaviour>>

\* a direct call resolveTask(pinefile, key)
ResolveTaskCall(key) ==
    /\ UNCHANGED otherVars
    /\ rt = "idle"
    /\ res.n < MaxResolveCalls
    /\ res' = [n |-> res.n + 1, called |-> TRUE, key |-> key, before |-> pinefile,
               val |-> resolveTask(pinefile, key)]
    /\ pinefile' = resolveTaskNs(pinefile, key)
    /\ UNCHANGED <<config, execs, stack, queue, log, calls, rt, behaviour>>

\* runTask(pinefile, name, args): calls execute and then awaits it
RunTask(name) ==
    /\ UNCHANGED otherVars
    /\ rt = "idle"
    /\ execs' = <<NewExec(name, ArgsBag, Frame("run", 0))>>
    /\ stack' = <<Frame("exec", 1), Frame("run", 0)>>
    /\ rt' = "called"
    /\ res' = NoRes
    /\ UNCHANGED <<pinefile, config, queue, log, calls, behaviour>>

\* runTask awaits the promise of execute
RunAwait ==
    /\ UNCHANGED otherVars
    /\ OnTop("run")
    /\ rt = "called"
    /\ rt' = "awaiting"
    /\ stack' = Tail(stack)
    /\ IF execs[1].st # "pending"
       THEN queue' = Append(queue, Frame("run", 0)) /\ execs' = execs
       ELSE queue' = queue /\ execs' = [execs EXCEPT ![1].awaited = TRUE]
    /\ UNCHANGED <<pinefile, config, log, calls, res, behaviour>>

\* runTask returns: its promise settles as the promise of execute did
RunResume ==
    /\ UNCHANGED otherVars
    /\ OnTop("run")
    /\ rt = "awaiting"
    /\ rt' = execs[1].st
    /\ stack' = Tail(stack)
    /\ UNCHANGED <<pinefile, config, execs, queue, log, calls, res, behaviour>>

\* the next promise reaction runs once the call stack is empty
RunMicrotask ==
    /\ UNCHANGED otherVars
    /\ stack = <<>>
    /\ queue # <<>>
    /\ stack' = <<Head(queue)>>
    /\ queue' = Tail(queue)
    /\ UNCHANGED <<pinefile, config, execs, log, calls, rt, res, behaviour>>

(***************************************************************************)
(* execute.                                                                *)
(***************************************************************************)
\* execute from its first line to the call of the pre-hook
ExecStart ==
    /\ UNCHANGED otherVars
    /\ OnTop("exec")
    /\ execs[TopId].pc = "start"
    /\ LET e == TopId
           x == execs[e]
           task == resolveTask(pinefile, Str(x.name))
           ns1 == resolveTaskNs(pinefile, Str(x.name))
           gerr == getRunnerError(config)
           gr == getRunner(config)
       IN IF gerr # NoErr
          THEN /\ execs' = SettleExec(execs, e, OnGetRunnerError, gerr)
               /\ queue' = Notify(queue, x)
               /\ stack' = Tail(stack)
               /\ pinefile' = ns1
               /\ UNCHANGED <<config, log, calls, rt, res, behaviour>>
          ELSE \E exists \in TaskExistsResults(gr.runner) :
               LET sel == SelectFn(x.name, task, gr.runner, exists)
                   calls1 == calls \o SelectionCalls(x, e, gr.runner, gr.options,
                                                     sel.fn, sel.fnExists)
               IN IF ~sel.fnExists
                  THEN \* fail if no task function can be found
                       /\ log' = log \o NotFoundLog(x, e)
                       /\ execs' = SettleExec([execs EXCEPT ![e].fnExists = "no"],
                                              e, "resolved", NoErr)
                       /\ queue' = Notify(queue, x)
                       /\ stack' = Tail(stack)
                       /\ pinefile' = ns1
                       /\ calls' = calls1
                       /\ UNCHANGED <<config, rt, res, behaviour>>
                  ELSE \E produced \in ProducedBy(sel.fn) :
                       LET preName == PreName(sel.fnName)
                           preFunc == resolveTask(ns1, Str(preName))
                           ns2 == resolveTaskNs(ns1, Str(preName))
                           x1 == [x EXCEPT !.fn = sel.fn, !.fnName = sel.fnName,
                                           !.fnExists = "yes", !.runner = produced]
                           c == Len(execs) + 1
                       IN /\ calls' = calls1
                          /\ behaviour' = IF sel.fn.len \in {3, 4}
                                          THEN Remember(sel.fn.id, produced)
                                          ELSE behaviour
                          /\ UNCHANGED <<config, log, rt, res>>
                          /\ IF produced = Thrown
                             THEN /\ execs' = SettleExec([execs EXCEPT ![e] = x1],
                                                         e, "rejected",
                                                         Err("runner function", "thrown"))
                                  /\ queue' = Notify(queue, x)
                                  /\ stack' = Tail(stack)
                                  /\ pinefile' = ns1
                             ELSE IF Truthy(preFunc)
                             THEN /\ execs' = Append(
                                        [execs EXCEPT ![e] =
                                            [x1 EXCEPT !.pc = "awaitPre", !.pre = c]],
                                        NewExec(preName, x.args, Frame("pre", e)))
                                  /\ stack' = <<Frame("exec", c)>> \o stack
                                  /\ pinefile' = ns2
                                  /\ queue' = queue
                             ELSE /\ execs' = [execs EXCEPT ![e] =
                                                  [x1 EXCEPT !.pc = "starting"]]
                                  /\ stack' = stack
                                  /\ pinefile' = ns2
                                  /\ queue' = queue

\* await execute(pinefile, preName, args)
ExecAwaitPre ==
    /\ UNCHANGED otherVars
    /\ OnTop("exec")
    /\ execs[TopId].pc = "awaitPre"
    /\ LET e == TopId
           c == execs[e].pre
       IN /\ stack' = Tail(stack)
          /\ IF execs[c].st # "pending"
             THEN /\ queue' = Append(queue, Frame("exec", e))
                  /\ execs' = [execs EXCEPT ![e].pc = "resumePre"]
             ELSE /\ queue' = queue
                  /\ execs' = [execs EXCEPT ![e].pc = "resumePre", ![c].awaited = TRUE]
    /\ UNCHANGED <<pinefile, config, log, calls, rt, res, behaviour>>

\* execute continues after the pre-hook: a rejection of the pre-hook's
\* execute rejects this one
ExecResumePre ==
    /\ UNCHANGED otherVars
    /\ OnTop("exec")
    /\ execs[TopId].pc = "resumePre"
    /\ LET e == TopId
           x == execs[e]
           c == x.pre
       IN IF execs[c].st = "rejected"
          THEN /\ execs' = SettleExec(execs, e, "rejected", execs[c].err)
               /\ queue' = Notify(queue, x)
               /\ stack' = Tail(stack)
          ELSE /\ execs' = [execs EXCEPT ![e].pc = "starting"]
               /\ UNCHANGED <<queue, stack>>
    /\ UNCHANGED <<pinefile, config, log, calls, rt, res, behaviour>>

\* log Starting; await the runner if it is a promise
ExecStarting ==
    /\ UNCHANGED otherVars
    /\ OnTop("exec")
    /\ execs[TopId].pc = "starting"
    /\ LET e == TopId
           x == execs[e]
       IN /\ log' = Append(log, LogEntry("info", "Starting", x.name, NoErr, e))
          /\ IF x.runner.t = "promise"
             THEN /\ execs' = [execs EXCEPT ![e].pc = "awaitRunner"]
                  /\ stack' = Tail(stack)
             ELSE /\ execs' = [execs EXCEPT ![e].pc = "invoke"]
                  /\ stack' = stack
    /\ UNCHANGED <<pinefile, config, queue, calls, rt, res, behaviour>>

\* the promise a runner function returned settles
SettleRunnerPromise(e) ==
    /\ UNCHANGED otherVars
    /\ stack = <<>>
    /\ execs[e].pc = "awaitRunner"
    /\ execs' = [execs EXCEPT ![e].pc = "resumeRunner"]
    /\ queue' = Append(queue, Frame("exec", e))
    /\ UNCHANGED <<pinefile, config, stack, log, calls, rt, res, behaviour>>

\* runner = await runner
ExecResumeRunner ==
    /\ UNCHANGED otherVars
    /\ OnTop("exec")
    /\ execs[TopId].pc = "resumeRunner"
    /\ LET e == TopId
           x == execs[e]
       IN IF ~x.runner.ok
          THEN /\ execs' = SettleExec(execs, e, "rejected",
                                      Err("runner promise", "rejected"))
               /\ queue' = Notify(queue, x)
               /\ stack' = Tail(stack)
          ELSE /\ execs' = [execs EXCEPT ![e].runner = x.runner.v, ![e].pc = "invoke"]
               /\ UNCHANGED <<queue, stack>>
    /\ UNCHANGED <<pinefile, config, log, calls, rt, res, behaviour>>

\* the runner that replaces a value that is not a function: it throws
InvalidRunner == Fn("invalidRunner", 0)

\* the typeof of the value, null included
BeforeTypeOfOnly(runner) == TypeOf(runner)

\* 'null', or the typeof of the value
BeforeType(runner) == IF runner = Null THEN "null" ELSE TypeOf(runner)

\* the runner after the replacement of a value that is not a function
CheckedRunner(runner) == IF TypeOf(runner) # "function" THEN InvalidRunner ELSE runner

\* how the runner is run: wrapped by doneify when it declares no parameter
WrapKind(runner) ==
    IF runner.len = 0 THEN "doneify"
    ELSE IF runner = TaskWrapper THEN "task"
    ELSE "custom"

\* the frame of the completion callback of execution e, called with err
CallDone(ex, e, err) == [ex EXCEPT ![e].dpc = "cb", ![e].dst = "pending", ![e].derr = err]

\* check the runner, wrap it when it takes no callback, and call it
ExecInvoke ==
    /\ UNCHANGED otherVars
    /\ OnTop("exec")
    /\ execs[TopId].pc = "invoke"
    /\ LET e == TopId
           x == execs[e]
           runner == CheckedRunner(x.runner)
           x1 == [x EXCEPT !.runner = runner, !.beforeType = BeforeType(x.runner),
                           !.wkind = WrapKind(runner), !.pc = "awaitRun"]
       IN IF WrapKind(runner) # "custom"
          THEN /\ execs' = [execs EXCEPT ![e] = [x1 EXCEPT !.wpc = "call",
                                                          !.wst = "pending"]]
               /\ stack' = <<Frame("wrap", e)>> \o stack
               /\ UNCHANGED <<queue, calls, behaviour>>
          ELSE \E o \in Choices(runner.id, CbOutcomes) :
               /\ calls' = Append(calls, CallEntry(runner.id, "done", x.name, x.args, e))
               /\ behaviour' = Remember(runner.id, o)
               /\ CASE o = "throw" ->
                         /\ execs' = SettleExec(execs, e, "rejected",
                                                Err("runner", "thrown"))
                         /\ queue' = Notify(queue, x)
                         /\ stack' = Tail(stack)
                    [] o = "done_later" ->
                         /\ execs' = [execs EXCEPT ![e] = [x1 EXCEPT !.wst = "value",
                                                                   !.cb = "pending"]]
                         /\ UNCHANGED <<queue, stack>>
                    [] OTHER ->
                         /\ execs' = CallDone(
                                [execs EXCEPT ![e] = [x1 EXCEPT !.wst = "value",
                                                                !.cb = "called"]],
                                e, IF o = "done_sync_err" THEN Err("runner", "failed")
                                   ELSE NoErr)
                         /\ stack' = <<Frame("done", e)>> \o stack
                         /\ queue' = queue
    /\ UNCHANGED <<pinefile, config, log, rt, res>>

\* a runner that kept the completion callback calls it
UserCallsDone(e, failed) ==
    /\ UNCHANGED otherVars
    /\ stack = <<>>
    /\ execs[e].cb = "pending"
    /\ execs' = CallDone([execs EXCEPT ![e].cb = "called"], e,
                         IF failed THEN Err("runner", "failed") ELSE NoErr)
    /\ stack' = <<Frame("done", e)>>
    /\ UNCHANGED <<pinefile, config, queue, log, calls, rt, res, behaviour>>

\* return await runner(callback)
ExecAwaitRun ==
    /\ UNCHANGED otherVars
    /\ OnTop("exec")
    /\ execs[TopId].pc = "awaitRun"
    /\ LET e == TopId
       IN /\ stack' = Tail(stack)
          /\ IF execs[e].wst # "pending"
             THEN /\ queue' = Append(queue, Frame("exec", e))
                  /\ execs' = [execs EXCEPT ![e].pc = "resumeRun"]
             ELSE /\ queue' = queue
                  /\ execs' = [execs EXCEPT ![e].pc = "resumeRun", ![e].wawaited = TRUE]
    /\ UNCHANGED <<pinefile, config, log, calls, rt, res, behaviour>>

\* execute returns: its promise resolves
ExecResumeRun ==
    /\ UNCHANGED otherVars
    /\ OnTop("exec")
    /\ execs[TopId].pc = "resumeRun"
    /\ LET e == TopId
       IN /\ execs' = SettleExec(execs, e, "resolved", NoErr)
          /\ queue' = Notify(queue, execs[e])
          /\ stack' = Tail(stack)
    /\ UNCHANGED <<pinefile, config, log, calls, rt, res, behaviour>>

(***************************************************************************)
(* Completion bridge: the plain task wrapper and doneify.                  *)
(***************************************************************************)
\* the function the wrapper calls and the argument it passes
WrappedCall(x, e) ==
    IF x.wkind = "task"
    THEN CallEntry(x.fn.id, "args", x.name, x.args, e)
    ELSE CallEntry(x.runner.id, "[]", x.name, Arr(<<>>), e)

\* how the wrapped function may end
WrappedOutcomes(x) ==
    IF x.wkind = "doneify" /\ x.runner = InvalidRunner THEN {"throw"}
    ELSE IF x.wkind = "doneify" THEN Choices(x.runner.id, BodyOutcomes)
    ELSE BodyOutcomes

\* the error the wrapper catches
CaughtError(x) ==
    IF x.wkind = "doneify" /\ x.runner = InvalidRunner
    THEN Err("invalid runner", x.beforeType)
    ELSE Err("task", x.fn.id)

\* a catch that calls done without the error
DroppedError(err) == NoErr

\* what the wrapper passes to done after catching err
DeliveredError(err) == err

\* the wrapper calls the function and awaits what it returns
WrapCall ==
    /\ UNCHANGED otherVars
    /\ OnTop("wrap")
    /\ execs[TopId].wpc = "call"
    /\ LET e == TopId
           x == execs[e]
       IN \E o \in WrappedOutcomes(x) :
          /\ calls' = Append(calls, WrappedCall(x, e))
          /\ behaviour' = IF x.wkind = "doneify" /\ x.runner # InvalidRunner
                          THEN Remember(x.runner.id, o) ELSE behaviour
          /\ CASE o = "ok" ->
                    /\ execs' = [execs EXCEPT ![e].body = "done", ![e].wpc = "resumeOk"]
                    /\ queue' = Append(queue, Frame("wrap", e))
                    /\ stack' = Tail(stack)
               [] o = "throw" ->
                    /\ execs' = CallDone(
                           [execs EXCEPT ![e].body = "failed", ![e].wpc = "afterDone"],
                           e, DeliveredError(CaughtError(x)))
                    /\ stack' = <<Frame("done", e)>> \o stack
                    /\ queue' = queue
               [] OTHER ->
                    /\ execs' = [execs EXCEPT ![e].body = "running", ![e].wpc = "awaitBody",
                                              ![e].bres = o]
                    /\ stack' = Tail(stack)
                    /\ queue' = queue
    /\ UNCHANGED <<pinefile, config, log, rt, res>>

\* the promise an asynchronous body returned settles
SettleBody(e) ==
    /\ UNCHANGED otherVars
    /\ stack = <<>>
    /\ execs[e].body = "running"
    /\ execs' = [execs EXCEPT
                    ![e].body = IF execs[e].bres = "async_ok" THEN "done" ELSE "failed",
                    ![e].wpc = IF execs[e].bres = "async_ok" THEN "resumeOk"
                               ELSE "resumeErr"]
    /\ queue' = Append(queue, Frame("wrap", e))
    /\ UNCHANGED <<pinefile, config, stack, log, calls, rt, res, behaviour>>

\* after the await the wrapper calls done() or, in its catch, done(err);
\* it does not await what done returns
WrapResume ==
    /\ UNCHANGED otherVars
    /\ OnTop("wrap")
    /\ execs[TopId].wpc \in {"resumeOk", "resumeErr"}
    /\ LET e == TopId
           x == execs[e]
       IN /\ execs' = CallDone([execs EXCEPT ![e].wpc = "afterDone"], e,
                               IF x.wpc = "resumeErr"
                               THEN DeliveredError(CaughtError(x)) ELSE NoErr)
          /\ stack' = <<Frame("done", e)>> \o stack
    /\ UNCHANGED <<pinefile, config, queue, log, calls, rt, res, behaviour>>

\* the wrapper returns once done has returned its promise
WrapAfterDone ==
    /\ UNCHANGED otherVars
    /\ OnTop("wrap")
    /\ execs[TopId].wpc = "afterDone"
    /\ LET e == TopId
       IN /\ execs' = [execs EXCEPT ![e].wpc = "end", ![e].wst = "resolved"]
          /\ queue' = IF execs[e].wawaited THEN Append(queue, Frame("exec", e)) ELSE queue
          /\ stack' = Tail(stack)
    /\ UNCHANGED <<pinefile, config, log, calls, rt, res, behaviour>>

(***************************************************************************)
(* The completion callback.                                                *)
(***************************************************************************)
\* a callback that logs Finished only when there is no error
DoneLogUnlessError(x, e) ==
    IF x.derr # NoErr THEN <<LogEntry("error", "error", x.name, x.derr, e)>>
    ELSE <<LogEntry("info", "Finished", x.name, NoErr, e)>>

\* what the callback logs before the post-hook
DoneLog(x, e) ==
    (IF x.derr # NoErr THEN <<LogEntry("error", "error", x.name, x.derr, e)>> ELSE <<>>)
    \o <<LogEntry("info", "Finished", x.name, NoErr, e)>>

\* the callback: log, then call the post-hook
DoneCb ==
    /\ UNCHANGED otherVars
    /\ OnTop("done")
    /\ execs[TopId].dpc = "cb"
    /\ LET e == TopId
           x == execs[e]
           postName == PostName(x.fnName)
           postFunc == resolveTask(pinefile, Str(postName))
           c == Len(execs) + 1
       IN /\ log' = log \o DoneLog(x, e)
          /\ pinefile' = resolveTaskNs(pinefile, Str(postName))
          /\ IF Truthy(postFunc)
             THEN /\ execs' = Append([execs EXCEPT ![e].dpc = "awaitPost", ![e].post = c],
                                     NewExec(postName, x.args, Frame("post", e)))
                  /\ stack' = <<Frame("exec", c)>> \o stack
             ELSE /\ execs' = [execs EXCEPT ![e].dpc = "end", ![e].dst = "resolved"]
                  /\ stack' = Tail(stack)
    /\ UNCHANGED <<config, queue, calls, rt, res, behaviour>>

\* await execute(pinefile, postName, args)
DoneAwaitPost ==
    /\ UNCHANGED otherVars
    /\ OnTop("done")
    /\ execs[TopId].dpc = "awaitPost"
    /\ LET e == TopId
           c == execs[e].post
       IN /\ stack' = Tail(stack)
          /\ IF execs[c].st # "pending"
             THEN /\ queue' = Append(queue, Frame("done", e))
                  /\ execs' = [execs EXCEPT ![e].dpc = "resumePost"]
             ELSE /\ queue' = queue
                  /\ execs' = [execs EXCEPT ![e].dpc = "resumePost", ![c].awaited = TRUE]
    /\ UNCHANGED <<pinefile, config, log, calls, rt, res, behaviour>>

\* the callback returns: its promise settles as the post-hook's execute did
DoneResumePost ==
    /\ UNCHANGED otherVars
    /\ OnTop("done")
    /\ execs[TopId].dpc = "resumePost"
    /\ LET e == TopId
       IN /\ execs' = [execs EXCEPT ![e].dpc = "end", ![e].dst = execs[execs[e].post].st]
          /\ stack' = Tail(stack)
    /\ UNCHANGED <<pinefile, config, queue, log, calls, rt, res, behaviour>>

(***************************************************************************)
(* Specification.                                                          *)
(***************************************************************************)
Next ==
    \/ \E newConfig \in NewConfigs : Configure(newConfig)
    \/ \E key \in ResolveKeys : ResolveTaskCall(key)
    \/ \E name \in TaskNames : RunTask(name)
    \/ RunAwait
    \/ RunResume
    \/ RunMicrotask
    \/ ExecStart
    \/ ExecAwaitPre
    \/ ExecResumePre
    \/ ExecStarting
    \/ \E e \in DOMAIN execs : SettleRunnerPromise(e)
    \/ ExecResumeRunner
    \/ ExecInvoke
    \/ \E e \in DOMAIN execs : \E failed \in BOOLEAN : UserCallsDone(e, failed)
    \/ ExecAwaitRun
    \/ ExecResumeRun
    \/ WrapCall
    \/ \E e \in DOMAIN execs : SettleBody(e)
    \/ WrapResume
    \/ WrapAfterDone
    \/ DoneCb
    \/ DoneAwaitPost
    \/ DoneResumePost

Spec == Init /\ [][Next]_vars

(***************************************************************************)
(* Properties.                                                             *)
(***************************************************************************)
NoRunner == config.runner = Undef

\* nothing is left to run: no frame, no reaction, no pending user promise
Quiescent ==
    /\ rt # "idle"
    /\ stack = <<>>
    /\ queue = <<>>
    /\ \A e \in DOMAIN execs :
          /\ execs[e].body # "running"
          /\ execs[e].pc # "awaitRunner"
          /\ execs[e].cb # "pending"

Settled == rt \in {"resolved", "rejected"}

CallIds == [i \in DOMAIN calls |-> calls[i].fn]

IsPrefix(s, t) == Len(s) <= Len(t) /\ s = SubSeq(t, 1, Len(s))

BodyOver(e) == execs[e].body \in {"done", "failed"}

\* the lines execution e wrote to the log
LogOf(e) == SelectSeq(log, LAMBDA l : l.e = e)

\* the calls of user functions execution e made, the taskExists predicate aside
TaskCallsOf(e) == SelectSeq(calls, LAMBDA c : c.e = e /\ c.fn # "taskExists")

BuildNs == Obj(kB :> fn1 @@ kPreB :> fn2 @@ kPostB :> fn3)

BuildRun == pinefile = BuildNs /\ NoRunner /\ execs # <<>> /\ execs[1].name = kB

\* C1: with no custom runner and the namespace { b: fn1, preb: fn2, postb: fn3 }
\* of plain tasks, runTask(ns, "b", args) calls fn2, then fn1, then fn3, each
\* once and each with args, and each only after the body of the one before it
\* has completed, whether the bodies are synchronous or asynchronous.
C1_PreMainPostInOrder ==
    BuildRun =>
        /\ IsPrefix(CallIds, <<"fn2", "fn1", "fn3">>)
        /\ \A i \in DOMAIN calls :
              /\ calls[i].sig = "args"
              /\ calls[i].args = ArgsBag
              /\ i > 1 => BodyOver(calls[i - 1].e)
        /\ Quiescent => Len(calls) = 3

C1_Witness ==
    /\ BuildRun
    /\ Quiescent
    /\ CallIds = <<"fn2", "fn1", "fn3">>
    /\ \A e \in DOMAIN execs : execs[e].bres = "async_ok"

\* every function the engine selected is a plain task of the namespace
PlainTasksOnly == NoRunner /\ \A e \in DOMAIN execs : execs[e].fn.len \notin {3, 4}

\* C2: the promise of runTask settles only after the execution of the
\* post-hook has settled: with plain tasks run through the engine's own
\* wrapper, runTask is never settled while the execution of the post-hook of
\* the requested task is pending or the body of that post-hook is running.
C2_SettlesAfterPostHook ==
    (Settled /\ PlainTasksOnly) =>
        \A e \in DOMAIN execs :
            execs[e].by = Frame("post", 1) =>
                execs[e].st # "pending" /\ execs[e].body # "running"

\* C3: when no runnable function is found (fnExists is false), execute logs
\* one not-found error and nothing else, its promise resolves, it calls no
\* task function and starts no hook; for the requested task, runTask resolves
\* and nothing else is executed or logged.
C3_NotFoundAborts ==
    \A e \in DOMAIN execs :
        execs[e].fnExists = "no" =>
            /\ LogOf(e) = <<LogEntry("error", "not found", execs[e].name, NoErr, e)>>
            /\ TaskCallsOf(e) = <<>>
            /\ execs[e].pre = 0 /\ execs[e].post = 0
            /\ execs[e].st = "resolved"
            /\ e = 1 => /\ Len(execs) = 1
                        /\ Len(log) = 1
                        /\ rt # "rejected"

C3_Witness ==
    /\ execs # <<>>
    /\ execs[1].fnExists = "no"
    /\ rt = "resolved"
    /\ Truthy(resolveTask(pinefile, Str(PostName(execs[1].name))))

\* the error the plain task wrapper of execution e catches
TaskError(e) == Err("task", execs[e].fn.id)

\* C4: an error thrown or a rejection returned by the body of a plain task is
\* passed to the completion callback, logged once by the callback, and rejects
\* neither the task's execute nor runTask.
C4_TaskErrorLoggedNotRejected ==
    /\ \A e \in DOMAIN execs :
          (execs[e].wkind = "task" /\ execs[e].body = "failed") =>
              /\ execs[e].dpc # "none" => execs[e].derr = TaskError(e)
              /\ execs[e].dpc \notin {"none", "cb"} =>
                    SelectSeq(LogOf(e), LAMBDA l : l.lvl = "error")
                        = <<LogEntry("error", "error", execs[e].name, TaskError(e), e)>>
              /\ execs[e].st # "rejected"
    /\ rt = "rejected" => execs[1].err.k # "task"
    /\ PlainTasksOnly => rt # "rejected"

C4_Witness ==
    /\ BuildRun
    /\ Quiescent
    /\ rt = "resolved"
    /\ Len(execs) = 3
    /\ execs[1].bres = "async_fail" /\ execs[1].body = "failed"
    /\ execs[2].bres = "none" /\ execs[2].body = "failed"

\* C5: a failing task does not abort the hooks around it: when the body of a
\* pre-hook failed, the task it precedes is still run, and when the body of a
\* task failed, its callback still logs Finished and starts the post-hook.
C5_FailureKeepsHooks ==
    \A e \in DOMAIN execs :
        (execs[e].wkind = "task" /\ execs[e].body = "failed") =>
            /\ execs[e].dpc \notin {"none", "cb"} =>
                  /\ \E i \in DOMAIN log :
                        log[i] = LogEntry("info", "Finished", execs[e].name, NoErr, e)
                  /\ Truthy(resolveTask(pinefile, Str(PostName(execs[e].fnName))))
                        => execs[e].post # 0
            /\ (Quiescent /\ execs[e].by.k = "pre"
                    /\ execs[execs[e].by.id].fn.len \notin {3, 4})
                  => BodyOver(execs[e].by.id)

C5_Witness ==
    /\ BuildRun
    /\ Quiescent
    /\ CallIds = <<"fn2", "fn1", "fn3">>
    /\ execs[2].body = "failed"
    /\ execs[1].body = "failed"
    /\ execs[1].post = 3

CallableRunner == TypeOf(config.runner) = "function"

\* the functions the namespaces hold
NamespaceFnIds == {"fn1", "fn2", "fn3", "fn4", "plugin3", "plugin4"}

\* execution e has called the configured runner with the namespace, the name
\* it executes and the args, and found a function
RunnerServes(e) ==
    /\ execs[e].fnExists = "yes"
    /\ execs[e].fn = config.runner
    /\ \E i \in DOMAIN calls :
          /\ calls[i].e = e
          /\ calls[i].fn = config.runner.id
          /\ calls[i].sig \in {"pinefile,name,args", "pinefile,name,args,options"}
          /\ calls[i].name = execs[e].name
          /\ calls[i].args = ArgsBag

\* C6, as stated: when the configured runner is a plain callable, every
\* execution that has run (the requested task and each hook) called that
\* runner with the namespace, its name and the args, was marked found, and
\* the engine called no function of the namespace.
C6_CallableRunnerAlwaysServes ==
    CallableRunner =>
        /\ \A e \in DOMAIN execs : execs[e].pc = "end" => RunnerServes(e)
        /\ \A i \in DOMAIN calls : calls[i].fn \notin NamespaceFnIds

\* C6, amended: the same when the configured runner is a plain callable that
\* declares 3 or 4 parameters.
C6_RunnerOfArity3Or4Serves ==
    (CallableRunner /\ config.runner.len \in {3, 4}) =>
        /\ \A e \in DOMAIN execs : execs[e].pc # "start" => RunnerServes(e)
        /\ \A i \in DOMAIN calls : calls[i].fn \notin NamespaceFnIds

C6_Witness ==
    /\ config.runner = customRunner3
    /\ pinefile = BuildNs
    /\ Quiescent
    /\ Len(execs) = 3
    /\ execs[1].name = kB
    /\ \A e \in DOMAIN execs : RunnerServes(e) /\ execs[e].st = "resolved"

\* a valid task value in the words of the specification: a callable, or a
\* non-empty mapping whose `_` is absent or callable
ValidValue(val) ==
    \/ val.t = "function"
    \/ /\ val.t = "object"
       /\ Keys(val) # {}
       /\ Get(val, kUnderscore) = Undef \/ Get(val, kUnderscore).t = "function"

\* C7: resolveTask returns a non-false result only if the value reached by
\* walking the path is a valid task value; for every other reached value
\* (empty mapping, mapping whose `_` is not callable, primitive) it returns
\* false.
C7_InvalidValuesAreNotFound ==
    (res.called /\ Truthy(res.key)) =>
        (~ValidValue(Walk(res.before, Properties(res.key, SepChar)))
            => res.val = False)

RECURSIVE Defined(_, _)
\* every segment of the path is defined at its level of the namespace
Defined(val, properties) ==
    \/ properties = <<>>
    \/ /\ Get(val, Head(properties)) # Undef
       /\ Defined(Get(val, Head(properties)), Tail(properties))

RECURSIVE Reached(_, _)
\* the value obtained by walking the segments one at a time
Reached(val, properties) ==
    IF properties = <<>> THEN val
    ELSE Reached(Get(val, Head(properties)), Tail(properties))

\* an empty or absent path
EmptyPath(key) == ~Truthy(key) \/ (key.t = "array" /\ key.a = <<>>)

\* a mapping that has a callable `_` collapsed to that `_`
Collapsed(val) ==
    IF val.t = "object" /\ Get(val, kUnderscore).t = "function"
    THEN Get(val, kUnderscore) ELSE val

\* C8: resolveTask returns false for an empty or absent path and for every
\* path a segment of which is not defined at its level of the namespace;
\* otherwise it returns the value obtained by walking the segments, a mapping
\* with a callable `_` collapsed to that `_`.
C8_ResolveIsTheWalk ==
    res.called =>
        IF EmptyPath(res.key) \/ ~Defined(res.before, Properties(res.key, SepChar))
        THEN res.val = False
        ELSE res.val = Collapsed(Reached(pinefile, Properties(res.key, SepChar)))

\* the mapping has a callable default, as it is or once flattened
CallableDefault(val) ==
    \/ Get(val, kDefault).t = "function"
    \/ Get(Get(val, kDefault), kUnderscore).t = "function"

\* the value under the name of execution e is a non-empty mapping with `_`
\* undefined and without a callable default
BareMapping(e) ==
    LET val == Reached(pinefile, Split(execs[e].name, SepChar))
    IN /\ val.t = "object"
       /\ Keys(val) # {}
       /\ Get(val, kUnderscore) = Undef
       /\ ~CallableDefault(val)

\* C9: with no custom runner, the execution of a name whose value is a
\* non-empty mapping with `_` undefined and without a callable default is
\* task-not-found: it calls no function, runs no hook and logs nothing but
\* the not-found error.
C9_BareMappingIsNotFound ==
    NoRunner =>
        \A e \in DOMAIN execs :
            (execs[e].pc # "start" /\ BareMapping(e)) =>
                /\ execs[e].fnExists = "no"
                /\ \A i \in DOMAIN calls : calls[i].e # e
                /\ execs[e].pre = 0 /\ execs[e].post = 0
                /\ \A i \in DOMAIN log : log[i].e = e => log[i].msg = "not found"

C9_Witness ==
    /\ NoRunner
    /\ execs # <<>>
    /\ BareMapping(1)
    /\ Get(Reached(pinefile, Split(execs[1].name, SepChar)), kDefault) = Num(123)
    /\ Settled
    /\ Truthy(resolveTask(pinefile, Str(PostName(execs[1].name))))

\* C10: when getRunner throws (a string runner that cannot be loaded, a
\* runner object whose default is not a function), execute rejects with that
\* error and so does runTask; no function is called, no hook is run and
\* nothing is logged.
C10_RunnerErrorRejects ==
    (getRunnerError(config) # NoErr /\ execs # <<>>) =>
        /\ calls = <<>>
        /\ log = <<>>
        /\ Len(execs) = 1
        /\ execs[1].pc # "start" =>
              execs[1].st = "rejected" /\ execs[1].err = getRunnerError(config)
        /\ Settled => rt = "rejected"

C10_Witness ==
    /\ config.runner = Obj(kDefault :> Num(123))
    /\ pinefile = BuildNs
    /\ execs # <<>>
    /\ execs[1].name = kB
    /\ rt = "rejected"

\* the positions in the log of the line msg written by execution e
LogAt(msg, e) == { i \in DOMAIN log : log[i].msg = msg /\ log[i].e = e }

\* execution e has written the line msg to the log
Logged(msg, e) == LogAt(msg, e) # {}

\* a line msg of execution d precedes every line msg2 of execution e
Precedes(msg, d, msg2, e) ==
    \A j \in LogAt(msg2, e) : \E i \in LogAt(msg, d) : i < j

\* the calls by which the task body of an execution runs: the task function
\* called by the wrapper, the zero-parameter runner called by doneify, or
\* the runner called with the completion callback
BodySigs == {"args", "[]", "done"}

\* C11: for every execution that found a function, Starting is logged before
\* the task body runs and Finished after the task body has completed and
\* after Starting; the pairs of a pre-hook, of its task and of the task's
\* post-hook do not interleave: Finished of the pre-hook precedes Starting of
\* the task and Finished of the task precedes Starting of the post-hook.
C11_StartingFinishedInOrder ==
    \A e \in DOMAIN execs :
        /\ (\E i \in DOMAIN calls : calls[i].e = e /\ calls[i].sig \in BodySigs)
              => Logged("Starting", e)
        /\ Logged("Finished", e) =>
              /\ Precedes("Starting", e, "Finished", e)
              /\ execs[e].body # "running"
              /\ execs[e].wkind \in {"task", "doneify"} => BodyOver(e)
        /\ (execs[e].by.k = "pre" /\ execs[e].fnExists = "yes") =>
              Precedes("Finished", e, "Starting", execs[e].by.id)
        /\ (execs[e].by.k = "post" /\ execs[e].fnExists = "yes") =>
              Precedes("Finished", execs[e].by.id, "Starting", e)

\* C12: the function selected for an execution is not called until the
\* execution of its pre-hook, if there is one, has settled; this for every
\* shape of task, functions of 3 and 4 parameters included.
C12_SelectedFnAfterPreHook ==
    \A e \in DOMAIN execs :
        (execs[e].pre # 0 /\ execs[execs[e].pre].st = "pending") =>
            TaskCallsOf(e) = <<>>

\* the value the function selected by execution e produced, once awaited
ProducedValue(e) ==
    LET p == behaviour[execs[e].fn.id]
    IN IF p.t = "promise" THEN p.v ELSE p

\* the function selected by execution e has 3 or 4 parameters and produced,
\* once awaited, a value that is not callable; the engine has checked it
NotCallableProduced(e) ==
    /\ execs[e].fn.len \in {3, 4}
    /\ execs[e].pc \in {"awaitRun", "resumeRun", "end"}
    /\ execs[e].st # "rejected"
    /\ execs[e].fn.id \in DOMAIN behaviour
    /\ ProducedValue(e).t # "function"

\* the name of the type of a value as the failure message gives it
TypeNamed(val) ==
    CASE val.t = "null" -> "null"
      [] val.t = "number" -> "number"
      [] val.t = "undefined" -> "undefined"
      [] val.t = "boolean" -> "boolean"
      [] val.t = "string" -> "string"
      [] OTHER -> "object"

\* the failure of the runner that replaced the value execution e produced
InvalidRunnerError(e) == Err("invalid runner", TypeNamed(ProducedValue(e)))

\* C13: when the value a 3- or 4-parameter function produced is, once
\* awaited, not callable, the completion callback is called with an error
\* naming the type of that value ("null" for null); the error is logged,
\* then Finished, the post-hook is run if there is one, and neither the
\* execution nor, when it is the requested task, runTask rejects.
C13_NotCallableRunnerIsDelivered ==
    \A e \in DOMAIN execs :
        NotCallableProduced(e) =>
            /\ execs[e].wkind = "doneify"
            /\ execs[e].dpc # "none" => execs[e].derr = InvalidRunnerError(e)
            /\ execs[e].wpc \in {"afterDone", "end"} => execs[e].dpc # "none"
            /\ execs[e].dpc \notin {"none", "cb"} =>
                  /\ \E i \in LogAt("error", e) :
                        /\ log[i].err = InvalidRunnerError(e)
                        /\ \E j \in LogAt("Finished", e) : i < j
                  /\ Cardinality(LogAt("error", e)) = 1
                  /\ Truthy(resolveTask(pinefile, Str(PostName(execs[e].fnName))))
                        => execs[e].post # 0
            /\ Quiescent => execs[e].dpc = "end"
            /\ (e = 1 /\ Settled) => rt = "resolved"

C13_Witness ==
    /\ execs # <<>>
    /\ NotCallableProduced(1)
    /\ behaviour[execs[1].fn.id] = Promise(Null, TRUE)
    /\ execs[1].beforeType = "null"
    /\ execs[1].post # 0
    /\ execs[execs[1].post].fnExists = "yes"
    /\ Quiescent
    /\ rt = "resolved"

(***************************************************************************)
(* getFnName on its own: every name and prefix up to a length.             *)
(***************************************************************************)
\* the longest task name getFnName is called with
MaxNameLen == 3

\* the characters of those task names
NameChars == {"a", "b", SepChar}

\* the task names getFnName is called with
HookTaskNames == UNION { [1..n -> NameChars] : n \in 0..MaxNameLen }

\* the prefixes getFnName is called with: its default and those of execute
HookPrefixes == { <<>>, sPre, sPost }

\* the state of the engine when nothing has run
EngineIdle ==
    /\ pinefile = Obj(kB :> fn1 @@ kPreB :> fn2 @@ kPostB :> fn3)
    /\ config = InitialConfig
    /\ execs = <<>>
    /\ stack = <<>>
    /\ queue = <<>>
    /\ log = <<>>
    /\ calls = <<>>
    /\ rt = "idle"
    /\ res = NoRes
    /\ behaviour = <<>>

InitHookNames ==
    /\ EngineIdle
    /\ pinefile0 = pinefile
    /\ CompanionIdle
    /\ EnvIdle
    /\ hook \in { [called |-> FALSE, name |-> n, prefix |-> p, out |-> <<>>] :
                     n \in HookTaskNames, p \in HookPrefixes }

\* getFnName(name, prefix)
GetFnNameCall ==
    /\ ~hook.called
    /\ hook' = [hook EXCEPT !.called = TRUE,
                            !.out = getFnName(hook.name, hook.prefix, SepChar)]
    /\ UNCHANGED <<engineVars, pinefile0, companionVars, envVars>>

NextHookNames == GetFnNameCall

SpecHookNames == InitHookNames /\ [][NextHookNames]_vars

\* the number of separators in a name
SepCount(s) == Cardinality({ i \in DOMAIN s : s[i] = SepChar })

\* the position of the last separator of a name, 0 when it has none
LastSepAt(s) ==
    IF SepCount(s) = 0 THEN 0
    ELSE CHOOSE i \in DOMAIN s : s[i] = SepChar /\ \A j \in DOMAIN s : s[j] = SepChar => j <= i

\* C14: the derived hook name has as many separator-delimited segments as
\* the task name, everything up to and including the last separator is
\* unchanged, and the last segment is the prefix followed by the last segment
\* of the task name.
C14_OnlyLastSegmentPrefixed ==
    hook.called =>
        LET k == LastSepAt(hook.name)
        IN /\ SepCount(hook.out) = SepCount(hook.name)
           /\ hook.out = SubSeq(hook.name, 1, k) \o hook.prefix
                            \o SubSeq(hook.name, k + 1, Len(hook.name))

C14_Witness ==
    /\ hook.called
    /\ hook.name = <<"a", SepChar, "b">>
    /\ hook.prefix = sPre
    /\ hook.out = <<"a", SepChar, "p", "r", "e", "b">>

RECURSIVE Ancestors(_)
\* the executions that transitively triggered execution e
Ancestors(e) ==
    IF execs[e].by.k = "run" THEN {}
    ELSE {execs[e].by.id} \cup Ancestors(execs[e].by.id)

RECURSIVE PathsOf(_)
\* the paths of a namespace that lead to a value
PathsOf(val) ==
    IF val.t # "object" THEN {}
    ELSE UNION { {<<k>>} \cup { <<k>> \o p : p \in PathsOf(val.m[k]) } : k \in Keys(val) }

\* a hook is executed only when its name resolves; its name is not the name
\* of an execution that triggered it nor of any other execution of the run;
\* a run has at most one execution per path of the namespace, and its own
HookNamesNeverRepeat ==
    /\ \A e \in DOMAIN execs :
          execs[e].by.k # "run" =>
              /\ \A a \in Ancestors(e) :
                    execs[a].name # execs[e].name /\ execs[a].fnName # execs[e].name
              /\ Truthy(resolveTask(pinefile, Str(execs[e].name)))
    /\ \A d, e \in DOMAIN execs : d # e => execs[d].name # execs[e].name
    /\ Len(execs) <= 1 + Cardinality(PathsOf(pinefile))

\* the frame on top of the call stack has a step to take
TopFrameRuns ==
    stack # <<>> =>
        CASE Head(stack).k = "run" -> rt \in {"called", "awaiting"}
          [] Head(stack).k = "exec" ->
                execs[TopId].pc \in {"start", "awaitPre", "resumePre", "starting",
                                     "resumeRunner", "invoke", "awaitRun", "resumeRun"}
          [] Head(stack).k = "wrap" ->
                execs[TopId].wpc \in {"call", "resumeOk", "resumeErr", "afterDone"}
          [] OTHER -> execs[TopId].dpc \in {"cb", "awaitPost", "resumePost"}

\* C15: a hook name derived at any nesting level is never the name of the
\* execution it is derived from nor of one that transitively triggered it;
\* a run triggers no more executions than the namespace has paths, and one
\* more; and the run is never stuck: while something is left to run, the
\* frame on top of the stack has a step to take.
C15_HookRecursionTerminates ==
    /\ HookNamesNeverRepeat
    /\ TopFrameRuns

C15_Witness ==
    /\ Quiescent
    /\ Len(execs) = 3
    /\ execs[1].name = kB
    /\ execs[2].by = Frame("post", 1)
    /\ execs[3].by = Frame("pre", 2)
    /\ execs[3].name = sPre \o sPost \o kB

\* the value the name of execution e resolves to in the namespace
ResolvedFor(e) == resolveTask(pinefile, Str(execs[e].name))

\* the function chosen for execution e is a namespace-with-default: no
\* runner is configured and its name resolves to a mapping with a `default`
WithDefault(e) ==
    /\ NoRunner
    /\ execs[e].pc # "start"
    /\ ResolvedFor(e).t = "object"
    /\ Get(ResolvedFor(e), kDefault) # Undef

\* the adjusted name: unchanged for "default", else name + ":default"
AdjustedName(name) ==
    IF name = kDefault THEN kDefault ELSE name \o <<SepChar>> \o kDefault

\* the name with its last segment, "default", prefixed
DefaultHook(name, prefix) ==
    IF name = kDefault THEN prefix \o kDefault
    ELSE name \o <<SepChar>> \o prefix \o kDefault

\* C16: when the function chosen for a name is a mapping with a callable
\* `default`, the engine calls that default and derives the hooks from the
\* adjusted name, so the hooks looked up and run are <name>:predefault and
\* <name>:postdefault (predefault and postdefault for the name "default");
\* when `default` is present and not callable the execution is not found.
C16_DefaultIsSubstituted ==
    \A e \in DOMAIN execs :
        WithDefault(e) =>
            LET dflt == Get(ResolvedFor(e), kDefault)
            IN IF dflt.t = "function"
               THEN /\ execs[e].fnExists = "yes"
                    /\ execs[e].fn = dflt
                    /\ execs[e].fnName = AdjustedName(execs[e].name)
                    /\ \A i \in DOMAIN calls :
                          calls[i].e = e => calls[i].fn = dflt.id /\ calls[i].sig = "args"
                    /\ \A c \in DOMAIN execs :
                          /\ execs[c].by = Frame("pre", e) =>
                                execs[c].name = DefaultHook(execs[e].name, sPre)
                          /\ execs[c].by = Frame("post", e) =>
                                execs[c].name = DefaultHook(execs[e].name, sPost)
                    /\ (execs[e].pre = 0) =
                          ~Truthy(resolveTask(pinefile,
                                              Str(DefaultHook(execs[e].name, sPre))))
               ELSE /\ execs[e].fnExists = "no"
                    /\ \A i \in DOMAIN calls : calls[i].e # e
                    /\ LogOf(e) = NotFoundLog(execs[e], e)

C16_Witness ==
    /\ execs # <<>>
    /\ WithDefault(1)
    /\ execs[1].name = kA
    /\ Quiescent
    /\ Len(execs) = 2
    /\ execs[2].name = kA \o <<SepChar>> \o sPre \o kDefault
    /\ CallIds = <<"fn4", "fn3">>
    /\ Truthy(resolveTask(pinefile, Str(sPre \o kA)))

\* the paths of a namespace, as the strings resolveTask is called with
PathKeys(ns) == { Str(Join(p, SepChar)) : p \in PathsOf(ns) }

\* C17: the namespace is read-only for the engine: after any resolveTask and
\* runTask calls, resolveTask returns for every path of the namespace what it
\* returned on the namespace as it was before those calls.
C17_NamespaceIsReadOnly ==
    \A key \in PathKeys(pinefile0) :
        resolveTask(pinefile, key) = resolveTask(pinefile0, key)

(***************************************************************************)
(* The companion module: before, after and its own execute.                *)
(***************************************************************************)
\* the number of before and after calls of a pinefile
MaxRegistrations == 2

\* the number of execute calls of a run (a cycle of registrations recurses
\* without end)
MaxExecutes == 4

\* the task names of a pinefile; the module exports the tasks a and b
TaskIds == {"a", "b", "c"}

ModuleTasks == {"a", "b"}

\* an argument of before and after: a task name, or an array of task names
Single(name) == [array |-> FALSE, names |-> <<name>>]

Array(names) == [array |-> TRUE, names |-> names]

\* the arguments after the first of a before or after call
RegisteredArgs ==
    { <<Single("b")>>, <<Single("b"), Single("c")>>,
      <<Single("c"), Array(<<"b", "c">>)>>, <<Array(<<"a", "b">>)>> }

RECURSIVE flattenArray(_)
\* flattenArray of ./utils: the elements of the arrays in place of the arrays
flattenArray(args) ==
    IF args = <<>> THEN <<>> ELSE Head(args).names \o flattenArray(Tail(args))

\* the list as it is, duplicates kept
KeepDuplicates(list) == list

RECURSIVE Unique(_)
\* Array.from(new Set(list)): the first occurrence of each element, in order
Unique(list) ==
    IF list = <<>> THEN <<>>
    ELSE LET front == Unique(Front(list))
         IN IF \E i \in DOMAIN front : front[i] = Last(list)
            THEN front ELSE Append(front, Last(list))

\* registry[name], an empty list when there is none
ListOf(registry, name) ==
    IF name \in DOMAIN registry THEN registry[name] ELSE <<>>

\* the registry after registering args for name
Register(registry, name, args) ==
    [n \in DOMAIN registry \cup {name} |->
        IF n = name THEN Unique(ListOf(registry, name) \o flattenArray(args))
        ELSE registry[n]]

\* a call of the companion's execute(name, args), made by the execute `by`
\* from its list `via`
NewTask(name, by, via) ==
    [name |-> name, by |-> by, via |-> via, pc |-> "before", i |-> 1, body |-> "none"]

\* how the body of a task of the module may end
ModuleOutcomes == {"sync", "async", "throw"}

InitCompanion ==
    /\ EngineIdle
    /\ hook = NoHook
    /\ pinefile0 = pinefile
    /\ _before = <<>>
    /\ _after = <<>>
    /\ _module = ModuleTasks
    /\ tasks = <<>>
    /\ callStack = <<>>
    /\ jobs = <<>>
    /\ output = <<>>
    /\ registered = <<>>
    /\ EnvIdle

\* before(name, ...args)
before(name, args) ==
    /\ tasks = <<>>
    /\ Len(registered) < MaxRegistrations
    /\ _before' = Register(_before, name, args)
    /\ registered' = Append(registered, [kind |-> "before", name |-> name, args |-> args])
    /\ UNCHANGED <<_after, _module, tasks, callStack, jobs, output>>
    /\ UNCHANGED <<engineVars, hook, pinefile0, envVars>>

\* after(name, ...args)
after(name, args) ==
    /\ tasks = <<>>
    /\ Len(registered) < MaxRegistrations
    /\ _after' = Register(_after, name, args)
    /\ registered' = Append(registered, [kind |-> "after", name |-> name, args |-> args])
    /\ UNCHANGED <<_before, _module, tasks, callStack, jobs, output>>
    /\ UNCHANGED <<engineVars, hook, pinefile0, envVars>>

\* run(argv), from the check of the task name on: execute(name, args)
run(name) ==
    /\ tasks = <<>>
    /\ name \in _module
    /\ tasks' = <<NewTask(name, 0, "run")>>
    /\ callStack' = <<1>>
    /\ UNCHANGED <<_before, _after, _module, jobs, output, registered>>
    /\ UNCHANGED <<engineVars, hook, pinefile0, envVars>>

\* the execute on top of the call stack is at pc
Executing(pc) == callStack # <<>> /\ tasks[Head(callStack)].pc = pc

\* _before[name].forEach((name) => execute(name, args)): one call of it,
\* which is not awaited
ExecuteBefore ==
    /\ Executing("before")
    /\ LET t == Head(callStack)
           list == ListOf(_before, tasks[t].name)
           i == tasks[t].i
       IN IF i <= Len(list)
          THEN /\ Len(tasks) < MaxExecutes
               /\ tasks' = Append([tasks EXCEPT ![t].i = i + 1],
                                  NewTask(list[i], t, "before"))
               /\ callStack' = <<Len(tasks) + 1>> \o callStack
          ELSE /\ tasks' = [tasks EXCEPT ![t].pc = "body"]
               /\ callStack' = callStack
    /\ UNCHANGED <<_before, _after, _module, jobs, output, registered>>
    /\ UNCHANGED <<engineVars, hook, pinefile0, envVars>>

\* if (_module[name]): log Starting, call the task and await what it returns
ExecuteBody ==
    /\ Executing("body")
    /\ LET t == Head(callStack)
       IN IF tasks[t].name \notin _module
          THEN /\ tasks' = [tasks EXCEPT ![t].pc = "after", ![t].i = 1]
               /\ UNCHANGED <<callStack, jobs, output>>
          ELSE \E o \in ModuleOutcomes :
               /\ output' = Append(output, [msg |-> "Starting", name |-> tasks[t].name])
               /\ callStack' = Tail(callStack)
               /\ CASE o = "sync" ->
                         /\ tasks' = [tasks EXCEPT ![t].pc = "finished", ![t].body = "done"]
                         /\ jobs' = Append(jobs, t)
                    [] o = "async" ->
                         /\ tasks' = [tasks EXCEPT ![t].pc = "finished",
                                                   ![t].body = "running"]
                         /\ jobs' = jobs
                    [] OTHER ->
                         /\ tasks' = [tasks EXCEPT ![t].pc = "end", ![t].body = "failed"]
                         /\ jobs' = jobs
    /\ UNCHANGED <<_before, _after, _module, registered>>
    /\ UNCHANGED <<engineVars, hook, pinefile0, envVars>>

\* the promise the body of a task returned resolves
ModuleBodySettles(t) ==
    /\ callStack = <<>>
    /\ tasks[t].body = "running"
    /\ tasks' = [tasks EXCEPT ![t].body = "done"]
    /\ jobs' = Append(jobs, t)
    /\ UNCHANGED <<_before, _after, _module, callStack, output, registered>>
    /\ UNCHANGED <<engineVars, hook, pinefile0, envVars>>

\* the next promise reaction runs once the call stack is empty
NextJob ==
    /\ callStack = <<>>
    /\ jobs # <<>>
    /\ callStack' = <<Head(jobs)>>
    /\ jobs' = Tail(jobs)
    /\ UNCHANGED <<_before, _after, _module, tasks, output, registered>>
    /\ UNCHANGED <<engineVars, hook, pinefile0, envVars>>

\* after the await: log Finished
ExecuteFinished ==
    /\ Executing("finished")
    /\ LET t == Head(callStack)
       IN /\ output' = Append(output, [msg |-> "Finished", name |-> tasks[t].name])
          /\ tasks' = [tasks EXCEPT ![t].pc = "after", ![t].i = 1]
    /\ UNCHANGED <<_before, _after, _module, callStack, jobs, registered>>
    /\ UNCHANGED <<engineVars, hook, pinefile0, envVars>>

\* _after[name].forEach((name) => execute(name, args)): one call of it,
\* which is not awaited; execute returns after the last
ExecuteAfter ==
    /\ Executing("after")
    /\ LET t == Head(callStack)
           list == ListOf(_after, tasks[t].name)
           i == tasks[t].i
       IN IF i <= Len(list)
          THEN /\ Len(tasks) < MaxExecutes
               /\ tasks' = Append([tasks EXCEPT ![t].i = i + 1],
                                  NewTask(list[i], t, "after"))
               /\ callStack' = <<Len(tasks) + 1>> \o callStack
          ELSE /\ tasks' = [tasks EXCEPT ![t].pc = "end"]
               /\ callStack' = Tail(callStack)
    /\ UNCHANGED <<_before, _after, _module, jobs, output, registered>>
    /\ UNCHANGED <<engineVars, hook, pinefile0, envVars>>

NextCompanion ==
    \/ \E name \in ModuleTasks : \E args \in RegisteredArgs : before(name, args)
    \/ \E name \in ModuleTasks : \E args \in RegisteredArgs : after(name, args)
    \/ \E name \in TaskIds : run(name)
    \/ ExecuteBefore
    \/ ExecuteBody
    \/ \E t \in DOMAIN tasks : ModuleBodySettles(t)
    \/ NextJob
    \/ ExecuteFinished
    \/ ExecuteAfter

SpecCompanion == InitCompanion /\ [][NextCompanion]_vars

\* the body of task t has been called
BodyStarted(t) == tasks[t].body # "none"

\* C18: in the companion module every task registered with before(name) has
\* completed before the body of name starts, every task registered with
\* after(name) starts only after the body of name has completed, and no two
\* task bodies are in progress at the same time.
C18_BeforeAndAfterAreSequential ==
    /\ \A t, c \in DOMAIN tasks :
          (tasks[c].by = t /\ tasks[c].via = "before" /\ BodyStarted(t)) =>
              tasks[c].body # "running"
    /\ \A t, c \in DOMAIN tasks :
          (tasks[c].by = t /\ tasks[c].via = "after") =>
              tasks[t].body \in {"none", "done"}
    /\ Cardinality({ t \in DOMAIN tasks : tasks[t].body = "running" }) <= 1

\* the places where a task is named in the calls that register for name:
\* the call, its argument and the position in the argument
Occurrences(kind, name) ==
    { <<c, a, k>> \in (DOMAIN registered) \X (1..2) \X (1..2) :
         /\ registered[c].kind = kind
         /\ registered[c].name = name
         /\ a \in DOMAIN registered[c].args
         /\ k \in DOMAIN registered[c].args[a].names }

\* the task named at a place
TaskAt(o) == registered[o[1]].args[o[2]].names[o[3]]

\* place o comes before place p
Earlier(o, p) ==
    \/ o[1] < p[1]
    \/ o[1] = p[1] /\ o[2] < p[2]
    \/ o[1] = p[1] /\ o[2] = p[2] /\ o[3] < p[3]

\* the first place where task x is registered for name
FirstOccurrence(kind, name, x) ==
    CHOOSE o \in Occurrences(kind, name) :
        /\ TaskAt(o) = x
        /\ \A p \in Occurrences(kind, name) : TaskAt(p) = x => ~Earlier(p, o)

\* the list is flat, has every task registered for name once, and keeps the
\* tasks in the order of their first registration
FlatUniqueInOrder(registry, kind, name) ==
    LET list == ListOf(registry, name)
    IN /\ \A i \in DOMAIN list : list[i] \in TaskIds
       /\ { list[i] : i \in DOMAIN list } =
             { TaskAt(o) : o \in Occurrences(kind, name) }
       /\ \A i, j \in DOMAIN list : i < j =>
             /\ list[i] # list[j]
             /\ Earlier(FirstOccurrence(kind, name, list[i]),
                        FirstOccurrence(kind, name, list[j]))

\* C19: after any before and after calls, with tasks given as separate
\* arguments or as arrays, the list registered for each name is flat, has
\* every task registered for that name exactly once, and keeps the tasks in
\* the order of their first registration.
C19_RegistrationsFlatUniqueOrdered ==
    \A name \in TaskIds :
        /\ FlatUniqueInOrder(_before, "before", name)
        /\ FlatUniqueInOrder(_after, "after", name)

C19_Witness ==
    /\ Len(registered) = 2
    /\ registered[1] = [kind |-> "before", name |-> "a",
                        args |-> <<Single("b"), Single("c")>>]
    /\ registered[2] = [kind |-> "before", name |-> "a",
                        args |-> <<Single("c"), Array(<<"b", "c">>)>>]
    /\ _before["a"] = <<"b", "c">>

(***************************************************************************)
(* configure and the environment of the process.                           *)
(***************************************************************************)
\* the partial configurations that carry an environment
EnvConfigs ==
    LET envs == { Obj(vFoo :> Str(vNew)), Obj(vFOO :> Str(vNew)),
                  Obj(vBAR :> Str(vNew)), Obj(vFoo :> Str(vNew) @@ vBAR :> Str(vNew)),
                  Undef }
    IN { [env |-> e] : e \in envs } \cup
       { [env |-> e, dotenv |-> Arr(<<DotenvFile>>)] : e \in envs } \cup
       { [env |-> e, dotenv |-> Arr(<<DotenvFile>>), path |-> Str(<<"p">>)] : e \in envs }

InitConfigure ==
    /\ EngineIdle
    /\ hook = NoHook
    /\ pinefile0 = pinefile
    /\ CompanionIdle
    /\ env \in Envs
    /\ env0 = env

NextConfigure == \E newConfig \in EnvConfigs : Configure(newConfig)

SpecConfigure == InitConfigure /\ [][NextConfigure]_vars

\* C20: configure never overwrites an environment variable that is already
\* set: every variable that was set before the call has its value after it.
C20_ConfigureKeepsSetVariables ==
    \A v \in DOMAIN env0 : v \in DOMAIN env /\ env[v] = env0[v]

====
